---- MODULE Spec2Model ----
(***************************************************************************)
(* Model of the hexagon aggregation pipeline of hex-wind (src/h3Utils.ts). *)
(*                                                                         *)
(* JavaScript numbers are IEEE-754 binary64.  capacity_mw and total_mw are *)
(* modelled bit-exactly: a non-negative double below 8192 is the integer   *)
(* v with value v * 2^-60, written as four limbs <<l0, l1, l2, l3>> in     *)
(* base 2^20 (l0 least significant), so l3 is the integer part and         *)
(* l2, l1, l0 are the 60 fraction bits.  Every double in [2^-7, 8192) is a *)
(* multiple of 2^-59, hence exact on this grid.                            *)
(*                                                                         *)
(* Four specifications share the variables:                                *)
(*   Spec      the aggregation core, step by step (h3Utils.ts)             *)
(*   SpecStats getTotalStats on a loaded batch (dataService.ts)            *)
(*   SpecFetch one load: fetchRealTurbineData with every answer of the     *)
(*             network, or synthesizeTurbineData, then the label           *)
(*   SpecApp   overlapping loadRegionData invocations (App.tsx)            *)
(***************************************************************************)
EXTENDS Integers, Sequences, FiniteSets, TLC

\* ---------------------------------------------------------------- bounds
MaxLen == 3
MaxResolutions == 2

\* ------------------------------------------------ binary64 arithmetic
Base == 2 ^ 20

Pow2[n \in 0..20] == IF n = 0 THEN 1 ELSE 2 * Pow2[n - 1]

\* number of significant bits of a limb (0 for 0)
BitLen(n) == IF n = 0 THEN 0 ELSE CHOOSE b \in 1..21 : Pow2[b - 1] <= n /\ (b = 21 \/ n < Pow2[b])

Zero == <<0, 0, 0, 0>>

\* exact sum of two grid numbers
BigAdd(a, b) ==
  LET s0 == a[1] + b[1]
      s1 == a[2] + b[2] + (s0 \div Base)
      s2 == a[3] + b[3] + (s1 \div Base)
      s3 == a[4] + b[4] + (s2 \div Base)
  IN  <<s0 % Base, s1 % Base, s2 % Base, s3>>

\* exact product of a grid number and a small non-negative integer (m < 2048)
BigMulSmall(a, m) ==
  LET p0 == a[1] * m
      p1 == a[2] * m + (p0 \div Base)
      p2 == a[3] * m + (p1 \div Base)
      p3 == a[4] * m + (p2 \div Base)
  IN  <<p0 % Base, p1 % Base, p2 % Base, p3>>

\* quotient (truncated to the grid) and remainder of a grid number by a
\* small positive integer (d < 2048)
BigDivSmall(a, d) ==
  LET t3 == a[4]
      t2 == (t3 % d) * Base + a[3]
      t1 == (t2 % d) * Base + a[2]
      t0 == (t1 % d) * Base + a[1]
  IN  [q |-> <<t0 \div d, t1 \div d, t2 \div d, t3 \div d>>, r |-> t0 % d]

\* position of the most significant set bit (-1 for zero)
Msb(a) ==
  IF a[4] # 0 THEN 59 + BitLen(a[4])
  ELSE IF a[3] # 0 THEN 39 + BitLen(a[3])
  ELSE IF a[2] # 0 THEN 19 + BitLen(a[2])
  ELSE BitLen(a[1]) - 1

\* round a grid number (plus a sticky flag for discarded lower bits) to the
\* nearest double, ties to even: keep the 53 bits from the most significant
RoundToDouble(a, sticky) ==
  LET s == Msb(a) - 52
  IN  IF s <= 0 THEN a
      ELSE LET r     == a[1] % Pow2[s]
               half  == Pow2[s - 1]
               lsb   == IF s = 20 THEN a[2] % 2 ELSE (a[1] \div Pow2[s]) % 2
               up    == r > half \/ (r = half /\ (sticky \/ lsb = 1))
               trunc == <<a[1] - r, a[2], a[3], a[4]>>
           IN  IF up THEN BigAdd(trunc, <<Pow2[s], 0, 0, 0>>) ELSE trunc

\* a + b on doubles
FAdd(a, b) == RoundToDouble(BigAdd(a, b), FALSE)

\* a * m on doubles, m a small integer
FMulInt(a, m) == RoundToDouble(BigMulSmall(a, m), FALSE)

\* n / d on doubles, n and d small integers with n = 0 or n / d >= 2^-7
FDivInt(n, d) ==
  LET qr == BigDivSmall(<<0, 0, 0, n>>, d)
  IN  RoundToDouble(qr.q, qr.r # 0)

\* Math.round: nearest integer, ties toward +Infinity
MathRound(a) == a[4] + (IF a[3] >= Base \div 2 THEN 1 ELSE 0)

\* a > b on doubles
FGreater(a, b) ==
  \/ a[4] > b[4]
  \/ a[4] = b[4] /\ a[3] > b[3]
  \/ a[4] = b[4] /\ a[3] = b[3] /\ a[2] > b[2]
  \/ a[4] = b[4] /\ a[3] = b[3] /\ a[2] = b[2] /\ a[1] > b[1]

\* ------------------------------------------------------------- inputs
\* capacities in hundredths of a MW, as the data layer produces them:
\* capacity_mw = Math.round(capacity * 100) / 100
CapHundredths == {80, 205}

CapacityMW(k) == FDivInt(k, 100)

Lats == {52}
Lons == {12, 13}

Resolutions == {3, 4}

TurbineSet == [lat : Lats, lon : Lons, capacity_mw : {CapacityMW(k) : k \in CapHundredths}]

SeqsUpTo(S, n) == UNION {[1..m -> S] : m \in 0..n}

\* all orderings of a sequence
Orderings(s) ==
  {[i \in 1..Len(s) |-> s[f[i]]] :
     f \in {g \in [1..Len(s) -> 1..Len(s)] : \A i, j \in 1..Len(s) : g[i] = g[j] => i = j}}

\* ------------------------------------------ h3-js library capabilities
\* edge length of a cell in degrees: resolution 3 is coarse, 4 is fine
CellWidth(res) == IF res = 3 THEN 2 ELSE 1

\* latLngToCell: deterministic function of (lat, lon, resolution)
latLngToCell(lat, lon, res) == <<res, lat \div CellWidth(res), lon \div CellWidth(res)>>

\* the fine cell at longitude 13 stands for a pentagon
IsPentagon(cell) == cell[1] = 4 /\ cell[3] = 13

\* cellToBoundary: ordered, non-closed sequence of <<lat, lng>> vertices
cellToBoundary(cell) ==
  LET w    == CellWidth(cell[1])
      clat == 10 * w * cell[2] + 5 * w
      clng == 10 * w * cell[3] + 5 * w
      hex  == << <<clat + 4 * w, clng>>,         <<clat + 2 * w, clng + 3 * w>>,
                 <<clat - 2 * w, clng + 3 * w>>, <<clat - 4 * w, clng>>,
                 <<clat - 2 * w, clng - 3 * w>>, <<clat + 2 * w, clng - 3 * w>> >>
  IN  IF IsPentagon(cell) THEN SubSeq(hex, 1, 5) ELSE hex

\* -------------------------------------------------------------- state
VARIABLES
  turbines,     \* the turbine batch handed to the aggregation core
  pc,           \* position of the running call
  caller,       \* who called generateH3Indices: "aggregateHexagons" or "top"
  input,        \* generateH3Indices: parameter turbines
  resolution,   \* generateH3Indices: parameter resolution
  hexMap,       \* generateH3Indices: the Map, entries in insertion order
  idx,          \* generateH3Indices: loop position
  resolutions,  \* aggregateHexagons: parameter resolutions
  ridx,         \* aggregateHexagons: loop position
  result,       \* aggregateHexagons: the Map res -> FeatureCollection
  features,     \* feature collection last returned by h3ToGeoJSON to the top level
  maxMW,        \* value last returned by getMaxMW
  calls,        \* history: one record per returned generateH3Indices call
  stats,        \* value last returned by getTotalStats
  region,       \* fetchRealTurbineData / synthesizeTurbineData: parameter region (its id)
  fetchReal,    \* loadRegionData: parameter fetchReal
  fpc,          \* position of the running load
  proxyIdx,     \* fetchRealTurbineData: position in corsProxies
  csvText,      \* fetchRealTurbineData: let csvText
  lastError,    \* fetchRealTurbineData: let lastError
  responses,    \* history: what each request of the load was answered with
  parsedText,   \* history: the texts handed to parseOPSDData
  fetched,      \* the turbine batch the load returned
  dataSource,   \* App state: the data source label
  loads,        \* the loadRegionData invocations so far, in call order
  sources       \* the map's GeoJSON sources, by source id

aggVars == <<turbines, pc, caller, input, resolution, hexMap, idx, resolutions, ridx,
             result, features, maxMW, calls>>

statsVars == <<stats>>

fetchVars == <<region, fetchReal, fpc, proxyIdx, csvText, lastError, responses,
               parsedText, fetched, dataSource>>

appVars == <<loads, sources>>

loadVars == <<statsVars, fetchVars, appVars>>

vars == <<aggVars, loadVars>>

\* nothing returned yet
None == <<"none">>
NoFeatures == [type |-> "none", features |-> <<>>]

\* the data-loading layer before anything was loaded
EmptyText == [length |-> 0, rows |-> <<>>]

NoBatch == [source |-> "none", turbines |-> <<>>]

SourceIds == {"hex-res3", "hex-res4", "hex-res5", "hex-res6", "turbines"}

\* a map without sources
NoSources == [id \in SourceIds |-> NoFeatures]

LoadIdle ==
  /\ stats = None
  /\ region = "germany"
  /\ fetchReal = TRUE
  /\ fpc = "idle"
  /\ proxyIdx = 1
  /\ csvText = EmptyText
  /\ lastError = "null"
  /\ responses = <<>>
  /\ parsedText = <<>>
  /\ fetched = NoBatch
  /\ dataSource = "Synthesized data"
  /\ loads = <<>>
  /\ sources = NoSources

\* ------------------------------------------------- generateH3Indices
\* Map.get: position of the entry with this key, 0 if absent
MapIndex(m, key) ==
  IF \E i \in 1..Len(m) : m[i].h3Index = key
  THEN CHOOSE i \in 1..Len(m) : m[i].h3Index = key
  ELSE 0

\* variant: an existing aggregate gains the capacity but not the member
AggregateTurbineNoIncrement(m, turbine, res) ==
  LET h3Index == latLngToCell(turbine.lat, turbine.lon, res)
      at      == MapIndex(m, h3Index)
  IN  IF at # 0
      THEN [m EXCEPT ![at].total_mw = FAdd(@, turbine.capacity_mw)]
      ELSE Append(m, [h3Index |-> h3Index,
                      total_mw |-> turbine.capacity_mw,
                      turbine_count |-> 1])

\* variant: a new aggregate is created before its first member is counted
AggregateTurbineSeedZero(m, turbine, res) ==
  LET h3Index == latLngToCell(turbine.lat, turbine.lon, res)
      at      == MapIndex(m, h3Index)
  IN  IF at # 0
      THEN [m EXCEPT ![at].total_mw = FAdd(@, turbine.capacity_mw),
                     ![at].turbine_count = @ + 1]
      ELSE Append(m, [h3Index |-> h3Index,
                      total_mw |-> turbine.capacity_mw,
                      turbine_count |-> 0])

\* body of the aggregation loop for one turbine
AggregateTurbine(m, turbine, res) ==
  LET h3Index == latLngToCell(turbine.lat, turbine.lon, res)
      at      == MapIndex(m, h3Index)
  IN  IF at # 0
      THEN [m EXCEPT ![at].total_mw = FAdd(@, turbine.capacity_mw),
                     ![at].turbine_count = @ + 1]
      ELSE Append(m, [h3Index |-> h3Index,
                      total_mw |-> turbine.capacity_mw,
                      turbine_count |-> 1])

\* variant: Math.round(x), whole units as getTotalStats rounds
RoundWholeUnit(x) == FDivInt(MathRound(x), 1)

\* Math.round(x * 10) / 10
RoundOneDecimal(x) == FDivInt(MathRound(FMulInt(x, 10)), 10)

\* body of the rounding loop for one entry
RoundEntry(m, i) == [m EXCEPT ![i].total_mw = RoundOneDecimal(@)]

\* the aggregation loop from position i on, as one computation
RECURSIVE AggregateFrom(_, _, _, _)
AggregateFrom(m, ts, i, res) ==
  IF i > Len(ts) THEN m
  ELSE AggregateFrom(AggregateTurbine(m, ts[i], res), ts, i + 1, res)

\* the rounding loop from position i on, as one computation
RECURSIVE RoundFrom(_, _)
RoundFrom(m, i) == IF i > Len(m) THEN m ELSE RoundFrom(RoundEntry(m, i), i + 1)

\* one call of generateH3Indices on its own
generateH3Indices(ts, res) == RoundFrom(AggregateFrom(<<>>, ts, 1, res), 1)

\* variant: the Map outlives the call (module-level instead of local)
EnterGenerateStaleMap(ts, res, who) ==
  /\ input' = ts
  /\ resolution' = res
  /\ caller' = who
  /\ hexMap' = hexMap
  /\ idx' = 1
  /\ pc' = "aggregate"

\* entry of generateH3Indices: a fresh empty Map
EnterGenerate(ts, res, who) ==
  /\ input' = ts
  /\ resolution' = res
  /\ caller' = who
  /\ hexMap' = <<>>
  /\ idx' = 1
  /\ pc' = "aggregate"

AggregateStep ==
  /\ pc = "aggregate"
  /\ idx <= Len(input)
  /\ hexMap' = AggregateTurbine(hexMap, input[idx], resolution)
  /\ idx' = idx + 1
  /\ UNCHANGED <<turbines, pc, caller, input, resolution, resolutions, ridx,
                 result, features, maxMW, calls>>
  /\ UNCHANGED loadVars

AggregateDone ==
  /\ pc = "aggregate"
  /\ idx > Len(input)
  /\ pc' = "round"
  /\ idx' = 1
  /\ UNCHANGED <<turbines, caller, input, resolution, hexMap, resolutions, ridx,
                 result, features, maxMW, calls>>
  /\ UNCHANGED loadVars

RoundStep ==
  /\ pc = "round"
  /\ idx <= Len(hexMap)
  /\ hexMap' = RoundEntry(hexMap, idx)
  /\ idx' = idx + 1
  /\ UNCHANGED <<turbines, pc, caller, input, resolution, resolutions, ridx,
                 result, features, maxMW, calls>>
  /\ UNCHANGED loadVars

\* --------------------------------------------------------- h3ToGeoJSON
\* variant: the ring is left as the boundary function returned it
ClosedRingOpen(boundary) ==
  [i \in 1..Len(boundary) |-> <<boundary[i][2], boundary[i][1]>>]

\* variant: vertices kept in the boundary function's (lat, lng) order
ClosedRingNoSwap(boundary) == Append(boundary, boundary[1])

ClosedRing(boundary) ==
  LET coordinates == [i \in 1..Len(boundary) |-> <<boundary[i][2], boundary[i][1]>>]
  IN  Append(coordinates, coordinates[1])

Feature(entry) ==
  [type       |-> "Feature",
   properties |-> [h3Index |-> entry.h3Index,
                   total_mw |-> entry.total_mw,
                   turbine_count |-> entry.turbine_count],
   geometry   |-> [type |-> "Polygon",
                   coordinates |-> <<ClosedRing(cellToBoundary(entry.h3Index))>>]]

\* variant: single-turbine cells are dropped
h3ToGeoJSONThreshold(m) ==
  [type |-> "FeatureCollection",
   features |-> SelectSeq([i \in 1..Len(m) |-> Feature(m[i])],
                          LAMBDA f : f.properties.turbine_count > 1)]

h3ToGeoJSON(m) ==
  [type |-> "FeatureCollection", features |-> [i \in 1..Len(m) |-> Feature(m[i])]]

\* ------------------------------------------------------------ getMaxMW
RECURSIVE MaxScan(_, _, _)
MaxScan(m, i, max) ==
  IF i > Len(m) THEN max
  ELSE MaxScan(m, i + 1, IF FGreater(m[i].total_mw, max) THEN m[i].total_mw ELSE max)

\* variant: the total of the last aggregate instead of the largest
getMaxMWLast(m) == IF m = <<>> THEN Zero ELSE m[Len(m)].total_mw

getMaxMW(m) == MaxScan(m, 1, Zero)

\* --------------------------------------------------- aggregateHexagons
\* variant: a resolution with no features is not stored
MapSetSkipEmpty(m, key, value) ==
  IF value.features = <<>> THEN m
  ELSE IF \E i \in 1..Len(m) : m[i].key = key
  THEN [i \in 1..Len(m) |-> IF m[i].key = key THEN [key |-> key, value |-> value] ELSE m[i]]
  ELSE Append(m, [key |-> key, value |-> value])

\* Map.set: replace the value of an existing key, else append
MapSet(m, key, value) ==
  IF \E i \in 1..Len(m) : m[i].key = key
  THEN [i \in 1..Len(m) |-> IF m[i].key = key THEN [key |-> key, value |-> value] ELSE m[i]]
  ELSE Append(m, [key |-> key, value |-> value])

CallRecord == [turbines |-> input, resolution |-> resolution, caller |-> caller, ret |-> hexMap]

\* aggregateHexagons(turbines, rs): entry
StartAggregateHexagons ==
  /\ pc = "idle"
  /\ calls = <<>>
  /\ \E rs \in SeqsUpTo(Resolutions, MaxResolutions) :
       /\ resolutions' = rs
       /\ ridx' = 1
       /\ result' = <<>>
       /\ pc' = "resLoop"
  /\ UNCHANGED <<turbines, caller, input, resolution, hexMap, idx, features, maxMW, calls>>
  /\ UNCHANGED loadVars

\* variant: every pass aggregates at the first resolution of the list
ResolutionStepFirstOnly ==
  /\ pc = "resLoop"
  /\ ridx <= Len(resolutions)
  /\ EnterGenerate(turbines, resolutions[1], "aggregateHexagons")
  /\ UNCHANGED <<turbines, resolutions, ridx, result, features, maxMW, calls>>
  /\ UNCHANGED loadVars

\* loop head: next resolution calls generateH3Indices(turbines, res)
ResolutionStep ==
  /\ pc = "resLoop"
  /\ ridx <= Len(resolutions)
  /\ EnterGenerate(turbines, resolutions[ridx], "aggregateHexagons")
  /\ UNCHANGED <<turbines, resolutions, ridx, result, features, maxMW, calls>>
  /\ UNCHANGED loadVars

\* generateH3Indices returns to aggregateHexagons: result.set(res, h3ToGeoJSON(hexMap))
ReturnToAggregateHexagons ==
  /\ pc = "round"
  /\ idx > Len(hexMap)
  /\ caller = "aggregateHexagons"
  /\ calls' = Append(calls, CallRecord)
  /\ result' = MapSet(result, resolution, h3ToGeoJSON(hexMap))
  /\ ridx' = ridx + 1
  /\ pc' = "resLoop"
  /\ UNCHANGED <<turbines, caller, input, resolution, hexMap, idx, resolutions, features, maxMW>>
  /\ UNCHANGED loadVars

AggregateHexagonsDone ==
  /\ pc = "resLoop"
  /\ ridx > Len(resolutions)
  /\ pc' = "aggregated"
  /\ UNCHANGED <<turbines, caller, input, resolution, hexMap, idx, resolutions, ridx,
                 result, features, maxMW, calls>>
  /\ UNCHANGED loadVars

\* ------------------------------------------------------ direct callers
\* generateH3Indices(turbines, config.res) called directly on the batch
CallGenerate ==
  /\ pc = "idle"
  /\ \E res \in Resolutions : EnterGenerate(turbines, res, "top")
  /\ UNCHANGED <<turbines, resolutions, ridx, result, features, maxMW, calls>>
  /\ UNCHANGED loadVars

\* a later direct call at the same resolution on the same batch in any order
\* (the given one included)
CallGenerateReordered ==
  /\ pc = "again"
  /\ \E ts \in Orderings(turbines) : EnterGenerate(ts, resolution, "top")
  /\ UNCHANGED <<turbines, resolutions, ridx, result, features, maxMW, calls>>
  /\ UNCHANGED loadVars

ReturnToTop ==
  /\ pc = "round"
  /\ idx > Len(hexMap)
  /\ caller = "top"
  /\ calls' = Append(calls, CallRecord)
  /\ pc' = "returned"
  /\ UNCHANGED <<turbines, caller, input, resolution, hexMap, idx, resolutions, ridx,
                 result, features, maxMW>>
  /\ UNCHANGED loadVars

\* const maxMW = getMaxMW(hexMap)
CallGetMaxMW ==
  /\ pc = "returned"
  /\ maxMW' = getMaxMW(hexMap)
  /\ pc' = "scanned"
  /\ UNCHANGED <<turbines, caller, input, resolution, hexMap, idx, resolutions, ridx,
                 result, features, calls>>
  /\ UNCHANGED loadVars

CallH3ToGeoJSON ==
  /\ pc = "scanned"
  /\ features' = h3ToGeoJSON(hexMap)
  /\ pc' = IF Len(calls) = 1 THEN "again" ELSE "done"
  /\ UNCHANGED <<turbines, caller, input, resolution, hexMap, idx, resolutions, ridx,
                 result, maxMW, calls>>
  /\ UNCHANGED loadVars

\* ------------------------------------------------------- specification
Init ==
  /\ turbines \in SeqsUpTo(TurbineSet, MaxLen)
  /\ pc = "idle"
  /\ caller = "top"
  /\ input = <<>>
  /\ resolution = 3
  /\ hexMap = <<>>
  /\ idx = 1
  /\ resolutions = <<>>
  /\ ridx = 1
  /\ result = <<>>
  /\ features = NoFeatures
  /\ maxMW = None
  /\ calls = <<>>
  /\ LoadIdle

Next ==
  \/ StartAggregateHexagons
  \/ ResolutionStep
  \/ AggregateStep
  \/ AggregateDone
  \/ RoundStep
  \/ ReturnToAggregateHexagons
  \/ AggregateHexagonsDone
  \/ CallGenerate
  \/ CallGenerateReordered
  \/ ReturnToTop
  \/ CallGetMaxMW
  \/ CallH3ToGeoJSON

Spec == Init /\ [][Next]_vars

\* -------------------------------------------------------- getTotalStats
\* capacities of the batches the stats reducer is applied to, in hundredths
StatsCapHundredths == {15, 120}

StatsTurbineSet ==
  [lat : Lats, lon : Lons, capacity_mw : {CapacityMW(k) : k \in StatsCapHundredths}]

\* turbines.reduce((sum, t) => sum + t.capacity_mw, 0), from position i on
RECURSIVE ReduceCapacity(_, _, _)
ReduceCapacity(ts, i, sum) ==
  IF i > Len(ts) THEN sum
  ELSE ReduceCapacity(ts, i + 1, FAdd(sum, ts[i].capacity_mw))

getTotalStats(ts) ==
  [count |-> Len(ts), totalMW |-> MathRound(ReduceCapacity(ts, 1, Zero))]

\* const turbineStats = getTotalStats(turbines)
CallGetTotalStats ==
  /\ pc = "loaded"
  /\ stats' = getTotalStats(turbines)
  /\ pc' = "counted"
  /\ UNCHANGED <<turbines, caller, input, resolution, hexMap, idx, resolutions, ridx,
                 result, features, maxMW, calls>>
  /\ UNCHANGED <<fetchVars, appVars>>

InitStats ==
  /\ turbines \in SeqsUpTo(StatsTurbineSet, MaxLen)
  /\ pc = "loaded"
  /\ caller = "top"
  /\ input = <<>>
  /\ resolution = 3
  /\ hexMap = <<>>
  /\ idx = 1
  /\ resolutions = <<>>
  /\ ridx = 1
  /\ result = <<>>
  /\ features = NoFeatures
  /\ maxMW = None
  /\ calls = <<>>
  /\ LoadIdle

NextStats == CallGetTotalStats

SpecStats == InitStats /\ [][NextStats]_vars

\* -------------------------------------------------- data-loading layer
MaxRows == 1

\* ids of the selectable regions
REGIONS == {"germany", "uk", "denmark", "france", "sweden", "eu", "us"}

\* region ids that have a download address
OPSD_DATA_URLS ==
  {"germany", "uk", "eu", "denmark", "france", "sweden", "switzerland", "czech"}

\* regions a load can be asked for: the selectable ones and the NVE one
LoadRegions == REGIONS \cup {"norway"}

\* the count field of every cluster, by region id
WIND_FARM_CLUSTERS ==
  [us      |-> <<3000, 2500, 2000, 1500, 3500, 1200, 800, 1500, 1000, 2000, 1800, 1200,
                 1500, 1000, 1200, 800, 1500>>,
   norway  |-> <<400, 350, 500, 300, 250>>,
   germany |-> <<2500, 1200, 2000, 1500, 2200, 1800, 1200, 800, 600, 700, 500, 600>>,
   uk      |-> <<1500, 1200, 800, 900, 700, 1000, 600, 500, 800, 400, 800, 500>>,
   eu      |-> <<3000, 2000, 2500, 1200, 1000, 800, 1500, 800, 600, 1500, 800, 1000, 700,
                 800, 1200, 700, 400, 900, 500, 400, 600, 300, 800, 500, 600>>]

\* a JavaScript number: NaN, Infinity, or a finite value v
NaN == [kind |-> "nan", v |-> Zero]
Infinity == [kind |-> "inf", v |-> Zero]
Num(x) == [kind |-> "num", v |-> x]

\* parseFloat on the strings that occur in the rows below
parseFloat(s) ==
  CASE s = "0"        -> Num(Zero)
    [] s = "12"       -> Num(FDivInt(12, 1))
    [] s = "52"       -> Num(FDivInt(52, 1))
    [] s = "0.05"     -> Num(FDivInt(5, 100))
    [] s = "2.05"     -> Num(FDivInt(205, 100))
    [] s = "Infinity" -> Infinity
    [] OTHER          -> NaN

isNaN(x) == x.kind = "nan"

\* x < 0.1
BelowTenth(x) == x.kind = "num" /\ FGreater(FDivInt(1, 10), x.v)

\* Math.round(x * 100) / 100
RoundTwoDecimals(x) ==
  IF x.kind = "num" THEN Num(FDivInt(MathRound(FMulInt(x.v, 100)), 100)) ELSE x

\* s || d
OrElse(s, d) == IF s = "" THEN d ELSE s

\* synthesized capacities, in tenths: Math.round(randomInRange(1.5, 6.0) * 10)
SynthTenths == {15, 60}

\* synthesizeTurbineData: per cluster, cluster.count turbines around its centre;
\* a record stands for the `times` turbines generated for one cluster
synthesizeTurbineData(id, tenths) ==
  LET key      == IF id \in DOMAIN WIND_FARM_CLUSTERS THEN id ELSE "us"
      clusters == WIND_FARM_CLUSTERS[key]
  IN  [source   |-> "synthesized",
       turbines |-> [i \in 1..Len(clusters) |->
                       [lon         |-> Num(<<key, i>>),
                        lat         |-> Num(<<key, i>>),
                        capacity_mw |-> Num(FDivInt(tenths, 10)),
                        project     |-> <<key, i>>,
                        times       |-> clusters[i]]]]

\* every outcome of the random draws
Synthesized(id) == {synthesizeTurbineData(id, c) : c \in SynthTenths}

\* ------------------------------------------------------- parseOPSDData
Row(energy, lon, lat, capacity) ==
  [energy_source_level_2 |-> energy, lon |-> lon, lat |-> lat,
   electrical_capacity |-> capacity]

RowSet ==
  {Row("Wind", "12", "52", "2.05"),
   Row("Solar", "12", "52", "2.05"),
   Row("Wind", "12", "", "2.05"),
   Row("Wind", "Infinity", "52", "2.05"),
   Row("Wind", "12", "52", "0.05"),
   Row("Wind", "12", "52", ""),
   Row("Wind", "12", "52", "n/a")}

\* body of the row loop: the turbines one row contributes
ParseRow(row) ==
  LET isWind   == row.energy_source_level_2 = "Wind"
      lon      == parseFloat(OrElse(row.lon, ""))
      lat      == parseFloat(OrElse(row.lat, ""))
      capacity == parseFloat(OrElse(row.electrical_capacity, "0"))
  IN  IF ~isWind THEN <<>>
      ELSE IF isNaN(lon) \/ isNaN(lat) \/ lon = Num(Zero) \/ lat = Num(Zero) THEN <<>>
      ELSE IF BelowTenth(capacity) THEN <<>>
      ELSE <<[lon         |-> lon,
              lat         |-> lat,
              capacity_mw |-> RoundTwoDecimals(capacity),
              project     |-> "Wind Farm",
              times       |-> 1]>>

RECURSIVE ParseRows(_, _)
ParseRows(rows, i) ==
  IF i > Len(rows) THEN <<>> ELSE ParseRow(rows[i]) \o ParseRows(rows, i + 1)

\* the text is kept as its length and its data rows (Papa.parse with header)
parseOPSDData(text) == ParseRows(text.rows, 1)

\* response bodies: the empty one, one of 99 characters, and every row list
\* up to MaxRows in a body of 100 and of 101 characters
Bodies ==
  {EmptyText, [length |-> 99, rows |-> <<>>]}
    \cup [length : {100, 101}, rows : SeqsUpTo(RowSet, MaxRows)]

\* ----------------------------------------------------- fetchNorwayData
\* an NVE feature: whether it has a usable geometry inside the Norway bounds,
\* its capacity in hundredths of a MW and its number of turbines
NveFeatureSet ==
  {[geometry |-> TRUE, effekt_MW_idrift |-> 420, antallTurbiner |-> 2],
   [geometry |-> TRUE, effekt_MW_idrift |-> 10, antallTurbiner |-> 30],
   [geometry |-> TRUE, effekt_MW_idrift |-> 5, antallTurbiner |-> 1],
   [geometry |-> FALSE, effekt_MW_idrift |-> 420, antallTurbiner |-> 2]}

\* body of the feature loop: the turbines one wind farm contributes;
\* Math.round(capacity / numTurbines * 100) is the nearest integer to
\* effekt_MW_idrift / antallTurbiner taken in hundredths
NveTurbines(feature) ==
  LET capacity    == feature.effekt_MW_idrift
      numTurbines == IF feature.antallTurbiner = 0 THEN 1 ELSE feature.antallTurbiner
      hundredths  == (2 * capacity + numTurbines) \div (2 * numTurbines)
  IN  IF ~feature.geometry THEN <<>>
      ELSE IF capacity < 10 THEN <<>>
      ELSE <<[lon         |-> Num(<<"nve", numTurbines>>),
              lat         |-> Num(<<"nve", numTurbines>>),
              capacity_mw |-> Num(FDivInt(hundredths, 100)),
              project     |-> "Wind Farm",
              times       |-> numTurbines]>>

RECURSIVE NveRows(_, _)
NveRows(fs, i) ==
  IF i > Len(fs) THEN <<>> ELSE NveTurbines(fs[i]) \o NveRows(fs, i + 1)

\* ------------------------------------------------ fetchRealTurbineData
corsProxies == <<"corsproxy.io", "api.allorigins.win">>

\* what a request can be answered with
Rejected == [kind |-> "rejected", body |-> EmptyText, features |-> <<>>]
NotOk == [kind |-> "notOk", body |-> EmptyText, features |-> <<>>]
OkText(b) == [kind |-> "ok", body |-> b, features |-> <<>>]
OkJson(fs) == [kind |-> "ok", body |-> EmptyText, features |-> fs]

ProxyOutcomes == {Rejected, NotOk} \cup {OkText(b) : b \in Bodies}

NveOutcomes == {Rejected, NotOk} \cup {OkJson(fs) : fs \in SeqsUpTo(NveFeatureSet, MaxRows)}

\* return value
Return(batch) ==
  /\ fpc' = "resolved"
  /\ fetched' = batch

\* return synthesizeTurbineData(region)
ReturnSynthesized(id) ==
  /\ fpc' = "resolved"
  /\ fetched' \in Synthesized(id)

\* variant: the catch block passes the error on
CatchErrorRethrow(id) ==
  /\ fpc' = "rejected"
  /\ fetched' = fetched

\* catch (error) { ...; return synthesizeTurbineData(region); }
CatchError(id) ==
  /\ fpc' = "resolved"
  /\ fetched' \in Synthesized(id)

\* loadRegionData(selectedRegion, true): fetchRealTurbineData up to its first await
CallFetchRealTurbineData ==
  /\ fpc = "idle"
  /\ \E id \in LoadRegions :
       /\ region' = id
       /\ fetchReal' = TRUE
       /\ IF id = "norway"
          THEN fpc' = "nve" /\ fetched' = fetched
          ELSE IF id \notin OPSD_DATA_URLS
          THEN ReturnSynthesized(id)
          ELSE fpc' = "proxy" /\ fetched' = fetched
  /\ proxyIdx' = 1
  /\ csvText' = EmptyText
  /\ lastError' = "null"
  /\ UNCHANGED <<responses, parsedText, dataSource>>
  /\ UNCHANGED <<aggVars, statsVars, appVars>>

\* the NVE request is answered: fetchNorwayData runs to its end
NveResponds ==
  /\ fpc = "nve"
  /\ \E o \in NveOutcomes :
       /\ responses' = Append(responses, [proxy |-> "nve"] @@ o)
       /\ IF o.kind # "ok"
          THEN CatchError(region)
          ELSE Return([source |-> "nve", turbines |-> NveRows(o.features, 1)])
  /\ UNCHANGED <<region, fetchReal, proxyIdx, csvText, lastError, parsedText, dataSource>>
  /\ UNCHANGED <<aggVars, statsVars, appVars>>

\* one pass of the proxy loop: the request through corsProxies[proxyIdx] is answered
ProxyResponds ==
  /\ fpc = "proxy"
  /\ \E o \in ProxyOutcomes :
       /\ responses' = Append(responses, [proxy |-> corsProxies[proxyIdx]] @@ o)
       /\ IF o.kind # "ok"
          THEN /\ lastError' = o.kind
               /\ csvText' = csvText
               /\ fpc' = IF proxyIdx < Len(corsProxies) THEN "proxy" ELSE "afterLoop"
          ELSE /\ lastError' = lastError
               /\ csvText' = o.body
               /\ fpc' = IF o.body.length > 100 THEN "afterLoop"
                         ELSE IF proxyIdx < Len(corsProxies) THEN "proxy" ELSE "afterLoop"
  /\ proxyIdx' = proxyIdx + 1
  /\ UNCHANGED <<region, fetchReal, parsedText, fetched, dataSource>>
  /\ UNCHANGED <<aggVars, statsVars, appVars>>

\* after the proxy loop: give up, or parse and return
AfterLoop ==
  /\ fpc = "afterLoop"
  /\ IF csvText.length = 0 \/ csvText.length < 100
     THEN CatchError(region) /\ parsedText' = parsedText
     ELSE /\ parsedText' = Append(parsedText, csvText)
          /\ IF Len(parseOPSDData(csvText)) = 0
             THEN ReturnSynthesized(region)
             ELSE Return([source |-> "opsd", turbines |-> parseOPSDData(csvText)])
  /\ UNCHANGED <<region, fetchReal, proxyIdx, csvText, lastError, responses, dataSource>>
  /\ UNCHANGED <<aggVars, statsVars, appVars>>

\* loadRegionData(selectedRegion, false): synthesizeTurbineData(selectedRegion)
CallSynthesizeTurbineData ==
  /\ fpc = "idle"
  /\ \E id \in REGIONS :
       /\ region' = id
       /\ fetchReal' = FALSE
       /\ ReturnSynthesized(id)
  /\ UNCHANGED <<proxyIdx, csvText, lastError, responses, parsedText, dataSource>>
  /\ UNCHANGED <<aggVars, statsVars, appVars>>

\* loadRegionData: setDataSource, once the turbines are there
SetDataSource ==
  /\ fpc = "resolved"
  /\ dataSource' = IF fetchReal THEN "Open Power System Data (OPSD)" ELSE "Synthesized data"
  /\ fpc' = "labelled"
  /\ UNCHANGED <<region, fetchReal, proxyIdx, csvText, lastError, responses, parsedText,
                 fetched>>
  /\ UNCHANGED <<aggVars, statsVars, appVars>>

\* nothing of the aggregation core has run
AggIdle ==
  /\ turbines = <<>>
  /\ pc = "idle"
  /\ caller = "top"
  /\ input = <<>>
  /\ resolution = 3
  /\ hexMap = <<>>
  /\ idx = 1
  /\ resolutions = <<>>
  /\ ridx = 1
  /\ result = <<>>
  /\ features = NoFeatures
  /\ maxMW = None
  /\ calls = <<>>

InitFetch == AggIdle /\ LoadIdle

NextFetch ==
  \/ CallFetchRealTurbineData
  \/ NveResponds
  \/ ProxyResponds
  \/ AfterLoop
  \/ CallSynthesizeTurbineData
  \/ SetDataSource

SpecFetch == InitFetch /\ [][NextFetch]_vars

\* ------------------------------------------------------- loadRegionData
MaxInvocations == 2
\* the batches a load can end with: no turbine, one, or two in one coarse cell
AppTurbineSet == [lat : Lats, lon : Lons, capacity_mw : {CapacityMW(205)}]

AppBatches ==
  {<<>>} \cup {<<t>> : t \in AppTurbineSet} \cup {<<t, u>> : t, u \in AppTurbineSet}

turbinesToGeoJSON(ts) ==
  [type     |-> "FeatureCollection",
   features |-> [i \in 1..Len(ts) |->
                   [type       |-> "Feature",
                    properties |-> [capacity_mw |-> ts[i].capacity_mw],
                    geometry   |-> [type |-> "Point",
                                    coordinates |-> <<ts[i].lon, ts[i].lat>>]]]]

\* the resolution loop of aggregateHexagons from position i on, as one computation
RECURSIVE AggregateResolutions(_, _, _, _)
AggregateResolutions(ts, rs, i, m) ==
  IF i > Len(rs) THEN m
  ELSE AggregateResolutions(ts, rs, i + 1,
                            MapSet(m, rs[i], h3ToGeoJSON(generateH3Indices(ts, rs[i]))))

aggregateHexagons(ts, rs) == AggregateResolutions(ts, rs, 1, <<>>)

\* the resolutions loadRegionData asks for, and the source of each
DisplayResolutions == <<3, 4, 5, 6>>

HexSource == [r \in {3, 4, 5, 6} |->
                CASE r = 3 -> "hex-res3" [] r = 4 -> "hex-res4"
                  [] r = 5 -> "hex-res5" [] r = 6 -> "hex-res6"]

\* hexagons.get(res): position of the entry, 0 if absent
MapGet(m, key) ==
  IF \E i \in 1..Len(m) : m[i].key = key
  THEN CHOOSE i \in 1..Len(m) : m[i].key = key
  ELSE 0

\* addHexagonLayers and addTurbineLayer on a map whose sources are `onto`
AddSources(onto, hexagons, turbineGeoJSON) ==
  [id \in SourceIds |->
     IF id = "turbines" THEN turbineGeoJSON
     ELSE LET r == CHOOSE q \in DOMAIN HexSource : HexSource[q] = id
          IN  IF MapGet(hexagons, r) = 0 THEN onto[id]
              ELSE hexagons[MapGet(hexagons, r)].value]

\* variant: a source that is already on the map is kept, only missing ones are added
InstallSourcesKeepExisting(old, ts) ==
  LET new == AddSources(NoSources, aggregateHexagons(ts, DisplayResolutions),
                        turbinesToGeoJSON(ts))
  IN  [id \in SourceIds |->
         IF old[id].type = "FeatureCollection" THEN old[id] ELSE new[id]]

\* remove the existing layers and sources, then add the new ones
InstallSources(old, ts) ==
  LET removed == [id \in DOMAIN old |-> NoFeatures]
  IN  AddSources(removed, aggregateHexagons(ts, DisplayResolutions), turbinesToGeoJSON(ts))

\* loadRegionData from the point where it has the turbines to its end
ShowTurbines(ts, label) ==
  /\ dataSource' = label
  /\ stats' = getTotalStats(ts)
  /\ sources' = InstallSources(sources, ts)

Finished == {i \in 1..Len(loads) : loads[i].pc = "done"}

\* loadRegionData(selectedRegion, true) is called and awaits fetchRealTurbineData
LoadRegionDataReal ==
  /\ Len(loads) < MaxInvocations
  /\ loads' = Append(loads, [fetchReal |-> TRUE, pc |-> "awaiting", turbines |-> <<>>,
                             finished |-> 0])
  /\ UNCHANGED <<stats, dataSource, sources>>
  /\ UNCHANGED <<region, fetchReal, fpc, proxyIdx, csvText, lastError, responses,
                 parsedText, fetched>>
  /\ UNCHANGED aggVars

\* loadRegionData(selectedRegion, false) is called: it has no await and runs to its end
LoadRegionDataSynthesized ==
  /\ Len(loads) < MaxInvocations
  /\ \E ts \in AppBatches :
       /\ loads' = Append(loads, [fetchReal |-> FALSE, pc |-> "done", turbines |-> ts,
                                  finished |-> Cardinality(Finished) + 1])
       /\ ShowTurbines(ts, "Synthesized data")
  /\ UNCHANGED <<region, fetchReal, fpc, proxyIdx, csvText, lastError, responses,
                 parsedText, fetched>>
  /\ UNCHANGED aggVars

\* the fetch of an awaiting invocation resolves: that invocation runs to its end
FetchResolves ==
  /\ \E i \in 1..Len(loads) :
       /\ loads[i].pc = "awaiting"
       /\ \E ts \in AppBatches :
            /\ loads' = [loads EXCEPT ![i].pc = "done", ![i].turbines = ts,
                                      ![i].finished = Cardinality(Finished) + 1]
            /\ ShowTurbines(ts, "Open Power System Data (OPSD)")
  /\ UNCHANGED <<region, fetchReal, fpc, proxyIdx, csvText, lastError, responses,
                 parsedText, fetched>>
  /\ UNCHANGED aggVars

InitApp == AggIdle /\ LoadIdle

NextApp ==
  \/ LoadRegionDataReal
  \/ LoadRegionDataSynthesized
  \/ FetchResolves

SpecApp == InitApp /\ [][NextApp]_vars

\* ---------------------------------------------------- property helpers
CellOf(t, res) == latLngToCell(t.lat, t.lon, res)

\* positions of the input points that fall in a cell
Members(ts, res, cell) == {i \in 1..Len(ts) : CellOf(ts[i], res) = cell}

Keys(m) == {m[i].h3Index : i \in 1..Len(m)}

Entries(m) == {m[i] : i \in 1..Len(m)}

RECURSIVE SumCounts(_, _)
SumCounts(m, i) == IF i > Len(m) THEN 0 ELSE m[i].turbine_count + SumCounts(m, i + 1)

\* the decimal quantity a capacity stands for, in hundredths of a MW
CapTable == [k \in CapHundredths |-> CapacityMW(k)]
Hundredths(d) == CHOOSE k \in CapHundredths : CapTable[k] = d

RECURSIVE SumHundredths(_, _, _)
SumHundredths(ts, S, i) ==
  IF i > Len(ts) THEN 0
  ELSE (IF i \in S THEN Hundredths(ts[i].capacity_mw) ELSE 0) + SumHundredths(ts, S, i + 1)

\* the decimal quantity a rounded total stands for, in tenths of a MW
MaxCap == CHOOSE k \in CapHundredths : \A j \in CapHundredths : j <= k
MaxTenths == (MaxLen * MaxCap) \div 10 + 1
TenthsTable == [n \in 0..MaxTenths |-> FDivInt(n, 10)]
Tenths(d) ==
  IF \E n \in 0..MaxTenths : TenthsTable[n] = d
  THEN CHOOSE n \in 0..MaxTenths : TenthsTable[n] = d
  ELSE -1

RECURSIVE SumTenths(_, _)
SumTenths(m, i) == IF i > Len(m) THEN 0 ELSE Tenths(m[i].total_mw) + SumTenths(m, i + 1)

Abs(n) == IF n < 0 THEN -n ELSE n

Returned == {calls[c] : c \in 1..Len(calls)}

\* --------------------------------------------------------------- claims
\* C1: in every mapping generateH3Indices returned, the member counts add up
\* to the length of the input, the keys are distinct, and each aggregate
\* counts exactly the input points whose cell identifier is its key.
C1_CountsPartitionInput ==
  \A r \in Returned :
    /\ SumCounts(r.ret, 1) = Len(r.turbines)
    /\ \A i, j \in 1..Len(r.ret) : r.ret[i].h3Index = r.ret[j].h3Index => i = j
    /\ \A i \in 1..Len(r.turbines) : CellOf(r.turbines[i], r.resolution) \in Keys(r.ret)
    /\ \A e \in Entries(r.ret) :
         e.turbine_count = Cardinality(Members(r.turbines, r.resolution, e.h3Index))

C1_Witness ==
  \E r \in Returned :
    /\ Len(r.turbines) = 3
    /\ Len(r.ret) = 2
    /\ \E e \in Entries(r.ret) : e.turbine_count = 2

Processed == IF pc = "aggregate" THEN idx - 1 ELSE Len(input)

C4_AggregatesNonEmpty ==
  /\ \A e \in Entries(hexMap) : e.turbine_count >= 1 /\ ~FGreater(Zero, e.total_mw)
  /\ Keys(hexMap) = {CellOf(input[i], resolution) : i \in 1..Processed}

C4_Witness ==
  /\ pc = "aggregate"
  /\ idx = 3
  /\ idx <= Len(input)
  /\ Len(hexMap) = 2

\* C5: two generateH3Indices calls on the same turbine sequence at the same
\* resolution return identical mappings, entry for entry.
C5_RepeatedCallSameMapping ==
  \A c, d \in 1..Len(calls) :
    (calls[c].turbines = calls[d].turbines /\ calls[c].resolution = calls[d].resolution)
      => calls[c].ret = calls[d].ret

C5_Witness ==
  /\ Len(calls) = 2
  /\ calls[1].turbines = calls[2].turbines
  /\ calls[1].resolution = calls[2].resolution
  /\ \E e \in Entries(calls[2].ret) : e.turbine_count >= 2

\* C2: in every returned mapping, each total_mw is the exact sum of the
\* capacities of the cell's input points (hundredths of a MW), rounded once to
\* one decimal place (ties up, as Math.round).
C2_ExactSumRoundedOnce ==
  \A r \in Returned :
    \A e \in Entries(r.ret) :
      e.total_mw =
        FDivInt((SumHundredths(r.turbines, Members(r.turbines, r.resolution, e.h3Index), 1) + 5)
                  \div 10, 10)

\* C6: generateH3Indices calls on reorderings of one turbine sequence at the
\* same resolution return the same mapping: same keys, same total_mw and same
\* turbine_count per key.
C6_OrderInvariant ==
  \A c, d \in 1..Len(calls) :
    calls[c].resolution = calls[d].resolution
      => Entries(calls[c].ret) = Entries(calls[d].ret)

\* C7: for an empty turbine sequence generateH3Indices returns the empty
\* mapping, aggregateHexagons returns a feature collection with zero features
\* for each requested resolution, and getMaxMW of the empty mapping is 0.
ResultKeys == {result[i].key : i \in 1..Len(result)}

C7_EmptyInput ==
  /\ \A r \in Returned : r.turbines = <<>> => r.ret = <<>>
  /\ (pc = "aggregated" /\ turbines = <<>>) =>
       /\ ResultKeys = {resolutions[i] : i \in 1..Len(resolutions)}
       /\ \A i \in 1..Len(result) : result[i].value.features = <<>>
  /\ (pc = "scanned" /\ hexMap = <<>>) => maxMW = Zero

C7_Witness ==
  /\ pc = "aggregated"
  /\ turbines = <<>>
  /\ Len(result) = 2

\* C8: h3ToGeoJSON emits one polygon feature per entry of its input mapping,
\* in order, and each feature's h3Index, total_mw and turbine_count are those
\* of the entry it was made from.
FeaturesOf(fc, m) ==
  /\ Len(fc.features) = Len(m)
  /\ \A i \in 1..Len(m) :
       /\ fc.features[i].geometry.type = "Polygon"
       /\ fc.features[i].properties.h3Index = m[i].h3Index
       /\ fc.features[i].properties.total_mw = m[i].total_mw
       /\ fc.features[i].properties.turbine_count = m[i].turbine_count

ResultGet(res) == (CHOOSE i \in 1..Len(result) : result[i].key = res)

C8_OneFeaturePerEntry ==
  /\ (pc \in {"again", "done"}) => FeaturesOf(features, hexMap)
  /\ (pc \in {"resLoop", "aggregated"} /\ calls # <<>>) =>
       /\ resolution \in ResultKeys
       /\ FeaturesOf(result[ResultGet(resolution)].value, hexMap)

C8_Witness ==
  /\ pc = "again"
  /\ Len(features.features) = 2
  /\ \E i \in 1..2 : features.features[i].properties.turbine_count = 1

\* every polygon feature handed out so far
Emitted ==
  {features.features[i] : i \in 1..Len(features.features)}
  \cup UNION {{result[k].value.features[i] : i \in 1..Len(result[k].value.features)} :
                k \in 1..Len(result)}

Ring(f) == f.geometry.coordinates[1]

\* C9: every emitted polygon has one ring, whose first and last coordinate are
\* identical and which has one more vertex than the boundary of its cell.
C9_RingClosed ==
  \A f \in Emitted :
    /\ Len(f.geometry.coordinates) = 1
    /\ Ring(f)[1] = Ring(f)[Len(Ring(f))]
    /\ Len(Ring(f)) = Len(cellToBoundary(f.properties.h3Index)) + 1

C9_Witness ==
  /\ features.type = "FeatureCollection"
  /\ \E f \in Emitted : IsPentagon(f.properties.h3Index) /\ Len(Ring(f)) = 6

\* C10: the i-th ring coordinate of every emitted polygon is (lng, lat) of the
\* i-th boundary vertex (lat, lng), and the closing coordinate is (lng, lat) of
\* the first boundary vertex.
C10_AxisSwap ==
  \A f \in Emitted :
    LET boundary == cellToBoundary(f.properties.h3Index)
    IN  /\ \A i \in 1..Len(boundary) :
             Ring(f)[i][1] = boundary[i][2] /\ Ring(f)[i][2] = boundary[i][1]
        /\ Ring(f)[Len(boundary) + 1][1] = boundary[1][2]
        /\ Ring(f)[Len(boundary) + 1][2] = boundary[1][1]

C10_Witness ==
  /\ pc = "aggregated"
  /\ \E f \in Emitted : ~IsPentagon(f.properties.h3Index) /\ Len(Ring(f)) = 7 /\ Ring(f)[2][1] # Ring(f)[2][2]

\* the decimal quantity a stats capacity stands for, in hundredths of a MW
StatsCapTable == [k \in StatsCapHundredths |-> CapacityMW(k)]
StatsHundredths(d) == CHOOSE k \in StatsCapHundredths : StatsCapTable[k] = d

RECURSIVE StatsSumHundredths(_, _)
StatsSumHundredths(ts, i) ==
  IF i > Len(ts) THEN 0
  ELSE StatsHundredths(ts[i].capacity_mw) + StatsSumHundredths(ts, i + 1)

\* C11: getTotalStats returns the number of turbines as count and the sum of
\* their capacities, rounded once to the nearest whole MW, as totalMW; the
\* empty sequence gives count 0 and totalMW 0.
C11_TotalStats ==
  pc = "counted" =>
    /\ stats.count = Len(turbines)
    /\ stats.totalMW = (StatsSumHundredths(turbines, 1) + 50) \div 100
    /\ (turbines = <<>> => stats = [count |-> 0, totalMW |-> 0])

\* the parts of C11 that do not depend on the sum being exact
C11_CountAndEmpty ==
  pc = "counted" =>
    /\ stats.count = Len(turbines)
    /\ (turbines = <<>> => stats = [count |-> 0, totalMW |-> 0])
    /\ Abs(100 * stats.totalMW - StatsSumHundredths(turbines, 1)) <= 50

\* C12: the value getMaxMW returned is at least the total of every aggregate
\* of the mapping, is the total of one of them when there is any, is 0 for the
\* empty mapping, and the mapping is still the one generateH3Indices returned.
C12_MaxOfTotals ==
  pc = "scanned" =>
    /\ \A e \in Entries(hexMap) : Tenths(e.total_mw) <= Tenths(maxMW)
    /\ (hexMap # <<>> => \E e \in Entries(hexMap) : e.total_mw = maxMW)
    /\ (hexMap = <<>> => maxMW = Zero /\ Tenths(maxMW) = 0)
    /\ hexMap = calls[Len(calls)].ret

C12_Witness ==
  /\ pc = "scanned"
  /\ Len(hexMap) = 2
  /\ Tenths(hexMap[1].total_mw) > Tenths(hexMap[2].total_mw)
  /\ maxMW = hexMap[1].total_mw

\* C13: aggregateHexagons returns one entry for each resolution of its list,
\* the entry of resolution r is h3ToGeoJSON of generateH3Indices(turbines, r)
\* computed on its own, whatever else is in the list and in whatever order,
\* and every pass read the same, unchanged turbine sequence.
C13_IsolatedPerResolution ==
  pc = "aggregated" =>
    /\ ResultKeys = {resolutions[i] : i \in 1..Len(resolutions)}
    /\ \A i, j \in 1..Len(result) : result[i].key = result[j].key => i = j
    /\ \A i \in 1..Len(result) :
         result[i].value = h3ToGeoJSON(generateH3Indices(turbines, result[i].key))
    /\ Len(calls) = Len(resolutions)
    /\ \A c \in 1..Len(calls) : calls[c].turbines = turbines

C13_Witness ==
  /\ pc = "aggregated"
  /\ Len(turbines) = 3
  /\ resolutions = <<4, 3>>
  /\ Len(result) = 2
  /\ Len(result[1].value.features) = 2
  /\ Len(result[2].value.features) = 1

\* ------------------------------------------- claims on the loading layer
Loaded == fpc \in {"resolved", "labelled"}

Batch == {fetched.turbines[i] : i \in 1..Len(fetched.turbines)}

\* the request failed on every proxy: rejected, not OK, or a body under 100 characters
FetchFailed ==
  /\ responses # <<>>
  /\ \A i \in 1..Len(responses) : responses[i].kind # "ok" \/ responses[i].body.length < 100

\* the NVE request failed
NveFailed == responses # <<>> /\ responses[Len(responses)].kind # "ok"

\* the parser found no turbine in the text it was given
ParseFailed == parsedText # <<>> /\ parseOPSDData(parsedText[Len(parsedText)]) = <<>>

\* C14: a load through fetchRealTurbineData never ends rejected; it returns a
\* turbine batch, and when the request failed on every proxy, the NVE request
\* failed or the parser found nothing, the batch is an output of
\* synthesizeTurbineData for the region asked for.
C14_NeverRejects ==
  /\ fpc \in {"idle", "nve", "proxy", "afterLoop", "resolved", "labelled"}
  /\ (fpc \in {"nve", "proxy"}) => Len(responses) < Len(corsProxies)
  /\ (Loaded /\ fetchReal) =>
       /\ fetched.source \in {"opsd", "nve", "synthesized"}
       /\ (fetched.source = "synthesized") => fetched \in Synthesized(region)
       /\ (region = "norway" /\ NveFailed) => fetched.source = "synthesized"
       /\ (region # "norway" /\ (FetchFailed \/ ParseFailed)) => fetched.source = "synthesized"

C14_Witness ==
  /\ fpc = "resolved"
  /\ region = "france"
  /\ Len(responses) = 2
  /\ responses[1].kind = "rejected"
  /\ responses[2].kind = "ok" /\ responses[2].body.length = 99
  /\ fetched \in Synthesized("france")

\* C16: every turbine record of a loaded batch has finite coordinates and a
\* strictly positive capacity_mw.
C16_ValidRecords ==
  Loaded =>
    \A t \in Batch :
      /\ t.lon.kind = "num"
      /\ t.lat.kind = "num"
      /\ t.capacity_mw.kind = "num"
      /\ t.capacity_mw.v # Zero

RECURSIVE SumSeq(_, _)
SumSeq(q, i) == IF i > Len(q) THEN 0 ELSE q[i] + SumSeq(q, i + 1)

\* C17: a synthesized batch for a selectable region lies around the clusters of
\* that region and has as many turbines as those clusters' counts add up to.
C17_SynthSameRegion ==
  (Loaded /\ fetched.source = "synthesized" /\ region \in REGIONS) =>
    /\ region \in DOMAIN WIND_FARM_CLUSTERS
    /\ \A t \in Batch : t.project[1] = region
    /\ SumSeq([i \in 1..Len(fetched.turbines) |-> fetched.turbines[i].times], 1)
         = SumSeq(WIND_FARM_CLUSTERS[region], 1)

\* positions of the answers that were OK with a body longer than 100 characters
LongAnswers ==
  {i \in 1..Len(responses) : responses[i].kind = "ok" /\ responses[i].body.length > 100}

\* C18: for an OPSD region the proxies are asked in list order, the text given
\* to parseOPSDData is the body of the first answer that was OK and longer than
\* 100 characters, and without such an answer parseOPSDData is not called and
\* the batch is synthesized.
C18_FirstLongBody ==
  (Loaded /\ fetchReal /\ region \in OPSD_DATA_URLS) =>
    /\ \A i \in 1..Len(responses) : responses[i].proxy = corsProxies[i]
    /\ IF LongAnswers # {}
       THEN parsedText = <<responses[CHOOSE i \in LongAnswers : \A j \in LongAnswers : i <= j].body>>
       ELSE parsedText = <<>> /\ fetched.source = "synthesized"

\* C19: once the label is set, it is 'Synthesized data' whenever the batch was
\* synthesized, and 'Open Power System Data (OPSD)' only for a fetched batch.
C19_LabelMatchesSource ==
  fpc = "labelled" =>
    /\ (fetched.source = "synthesized") => dataSource = "Synthesized data"
    /\ (dataSource = "Open Power System Data (OPSD)") => fetched.source \in {"opsd", "nve"}

\* what loadRegionData shows for a batch
ShownFor(ts) ==
  /\ stats = getTotalStats(ts)
  /\ \A r \in {3, 4, 5, 6} : sources[HexSource[r]] = h3ToGeoJSON(generateH3Indices(ts, r))
  /\ sources["turbines"] = turbinesToGeoJSON(ts)

====
